---- MODULE Spec2Model ----
(***************************************************************************)
(* A model of the deal-scoring engine of the FINN.no deal finder           *)
(* (src/deal_analyzer.py) and of the code around it.                       *)
(*                                                                         *)
(* Python values are modelled as follows.                                  *)
(*   str    a TLA+ string; Len, SubSeq and \o act on its characters.       *)
(*   dict   a function whose DOMAIN is the set of keys ({} is EmptyDict).  *)
(*   list   a sequence.                                                    *)
(*   int    an integer.                                                    *)
(*   float  an exact rational <<num, den>> in lowest terms, den > 0.       *)
(*          Numbers that can be fractional (averages, medians, the price   *)
(*          factor) are rationals throughout, also when they are whole.    *)
(* Strings are kept in ASCII: the letter a-with-ring of 'i gaar', 'maaned' *)
(* and 'paa' is written aa, in the code's literals and in the inputs alike.*)
(***************************************************************************)
EXTENDS Integers, Sequences, FiniteSets, TLC

VARIABLES
    items,        \* Spec: the batch of listings scraped so far
    deal_threshold, \* Spec: the deal threshold of the search
    analysis,     \* Spec: None, or the dict analyze returned for the batch
    listing,      \* SpecScore: the item passed to _calculate_deal_score
    group_stats,  \* SpecScore: the group_stats passed to it
    scored,       \* SpecScore: None, or the <<deal_score, factors>> returned
    similarity_groups, \* SpecKey: None, or the dict _group_by_similarity returned
    container,    \* SpecParse: the search-result element handed to the parser
    parse_pc,     \* SpecParse: "ready", or "returned" once the parser has run
    parsed,       \* SpecParse: what _parse_search_item returned (None: nothing)
    price_history, \* SpecStore: the rows of table price_history
    history_seq,  \* SpecStore: the last AUTOINCREMENT id of price_history
    saved_items,  \* SpecStore: the rows of table saved_items, by finn_id
    today,        \* SpecStore: the database's date('now'), in days
    stop_flag,    \* SpecSearch: FinnScraper._stop_flag is set
    max_results,  \* SpecSearch: params['max_results'] of the search
    search_pc,    \* SpecSearch: where the thread that runs search() stands
    page,         \* SpecSearch: search's page counter
    scraped,      \* SpecSearch: search's list `items`, listings by number
    pages_fetched, \* SpecSearch: the search-page requests started so far
    futures,      \* SpecSearch: the pool's futures, one per submitted listing
    detailed_items, \* SpecSearch: _fetch_item_details' list of that name
    completed,    \* SpecSearch: _fetch_item_details' progress counter
    search_result, \* SpecSearch: None, or results['items'] as search returned it
    is_scraping,  \* SpecGui: MainWindow.is_scraping
    threads,      \* SpecGui: the threads started for _run_search, oldest first
    event_queue,  \* SpecGui: the callbacks scheduled with after(0, ...)
    current_results, \* SpecGui: the items _display_results showed last
    errors        \* SpecGui: the threads whose error _show_error has shown

analyzerVars ==
    <<items, deal_threshold, analysis, listing, group_stats, scored,
      similarity_groups>>
parserVars == <<container, parse_pc, parsed>>
storeVars == <<price_history, history_seq, saved_items, today>>
searchLocals ==
    <<max_results, search_pc, page, scraped, pages_fetched, futures,
      detailed_items, completed, search_result>>
searchVars == <<stop_flag, searchLocals>>
guiVars == <<is_scraping, threads, event_queue, current_results, errors>>

\* The variables of the code around the analyzer.
otherVars == <<parserVars, storeVars, searchVars, guiVars>>

vars == <<analyzerVars, otherVars>>

\* None, and a value not yet returned: unequal to every dict and tuple that a
\* variable set to it can hold later.
None == <<>>

\* The parser has been handed nothing.
ParserIdle == container = None /\ parse_pc = "ready" /\ parsed = None

\* The code around the analyzer is at rest.
\* The database as _init_database creates it.
StoreIdle ==
    price_history = {} /\ history_seq = 0 /\ saved_items = <<>> /\ today = 0

\* A scraper as __init__ leaves it, no search called.
SearchIdle ==
    /\ stop_flag = FALSE /\ max_results = 0 /\ search_pc = "idle" /\ page = 1
    /\ scraped = <<>> /\ pages_fetched = 0 /\ futures = <<>>
    /\ detailed_items = <<>> /\ completed = 0 /\ search_result = None

\* The window as __init__ leaves it.
GuiIdle ==
    /\ is_scraping = FALSE /\ threads = <<>> /\ event_queue = <<>>
    /\ current_results = <<>> /\ errors = {}

OthersIdle == ParserIdle /\ StoreIdle /\ SearchIdle /\ GuiIdle

-----------------------------------------------------------------------------
(* Rational numbers.                                                       *)

RECURSIVE GCD(_, _)
GCD(a, b) == IF b = 0 THEN a ELSE GCD(b, a % b)

Abs(n) == IF n < 0 THEN -n ELSE n

\* n / d in lowest terms (d > 0).
Rat(n, d) ==
    LET g == GCD(Abs(n), d)
    IN  IF n = 0 THEN <<0, 1>> ELSE <<n \div g, d \div g>>

Whole(k) == <<k, 1>>

RatLess(a, b) == a[1] * b[2] < b[1] * a[2]
RatLeq(a, b) == a[1] * b[2] <= b[1] * a[2]
RatMin(a, b) == IF RatLess(b, a) THEN b ELSE a
RatMax(a, b) == IF RatLess(a, b) THEN b ELSE a
RatAdd(a, b) == Rat(a[1] * b[2] + b[1] * a[2], a[2] * b[2])
RatSub(a, b) == Rat(a[1] * b[2] - b[1] * a[2], a[2] * b[2])
RatMul(a, b) == Rat(a[1] * b[1], a[2] * b[2])
\* a / b for b > 0
RatDiv(a, b) == Rat(a[1] * b[2], a[2] * b[1])

\* Python's int(x): truncation toward zero.
IntOf(a) == IF a[1] >= 0 THEN a[1] \div a[2] ELSE -((-a[1]) \div a[2])

-----------------------------------------------------------------------------
(* Python str and dict operations.                                         *)

Char(s, i) == SubSeq(s, i, i)

\* Python: sub in s
Contains(s, sub) ==
    \E i \in 0..(Len(s) - Len(sub)) : SubSeq(s, i + 1, i + Len(sub)) = sub

UpperChars == "ABCDEFGHIJKLMNOPQRSTUVWXYZ"
LowerChars == "abcdefghijklmnopqrstuvwxyz"

ToLower == [c \in {Char(UpperChars, i) : i \in 1..Len(UpperChars)} |->
               Char(LowerChars, CHOOSE i \in 1..Len(UpperChars) : Char(UpperChars, i) = c)]

LowerChar(c) == IF c \in DOMAIN ToLower THEN ToLower[c] ELSE c

\* Python: s.lower()
RECURSIVE Lower(_)
Lower(s) ==
    IF Len(s) = 0 THEN ""
    ELSE LowerChar(Char(s, 1)) \o Lower(SubSeq(s, 2, Len(s)))

\* Python: s.strip()
RECURSIVE Strip(_)
Strip(s) ==
    IF Len(s) = 0 THEN ""
    ELSE IF Char(s, 1) = " " THEN Strip(SubSeq(s, 2, Len(s)))
    ELSE IF Char(s, Len(s)) = " " THEN Strip(SubSeq(s, 1, Len(s) - 1))
    ELSE s

Digits == "0123456789"

\* Python: str(n) for n >= 0
RECURSIVE ToStr(_)
ToStr(n) ==
    IF n < 10 THEN Char(Digits, n + 1)
    ELSE ToStr(n \div 10) \o Char(Digits, (n % 10) + 1)

EmptyDict == [k \in {} |-> 0]

\* Python: d.get(k, default)
Get(d, k, default) == IF k \in DOMAIN d THEN d[k] ELSE default

\* Python: x or default, for a str x
OrElse(x, default) == IF x = "" THEN default ELSE x

-----------------------------------------------------------------------------
(* DealAnalyzer: the deal scorer.                                          *)

\* CONDITION_WEIGHTS, in the dict's insertion order (the order the loop of
\* _calculate_deal_score visits it). Weights are in hundredths, so an entry's
\* second component is weight * 100.
CONDITION_WEIGHTS ==
    << <<"ny", 100>>, <<"new", 100>>,
       <<"som ny", 95>>, <<"like new", 95>>,
       <<"pent brukt", 85>>, <<"lightly used", 85>>,
       <<"brukt", 70>>, <<"used", 70>>,
       <<"til reparasjon", 40>>, <<"for repair", 40>> >>

DefaultConditionWeight == 70

\* `if price <= 0: return 0, factors`
ShortCircuit_strict(price) == price < 0
ShortCircuit(price) == price <= 0

\* 1. Price factor: min(100, max(0, 50 + price_diff_pct * 1.67)), or the
\* neutral 50 when the group has no average.
PriceDiffPct(price, avg_price) ==
    RatMul(RatDiv(RatSub(avg_price, Whole(price)), avg_price), Whole(100))

PriceFactor_noclamp(price, avg_price) ==
    IF RatLess(Whole(0), avg_price)
    THEN RatAdd(Whole(50), RatMul(PriceDiffPct(price, avg_price), Rat(167, 100)))
    ELSE Whole(50)

PriceFactor_slope1(price, avg_price) ==
    IF RatLess(Whole(0), avg_price)
    THEN RatMin(Whole(100), RatMax(Whole(0),
             RatAdd(Whole(50), PriceDiffPct(price, avg_price))))
    ELSE Whole(50)

PriceFactor(price, avg_price) ==
    IF RatLess(Whole(0), avg_price)
    THEN RatMin(Whole(100), RatMax(Whole(0),
             RatAdd(Whole(50), RatMul(PriceDiffPct(price, avg_price), Rat(167, 100)))))
    ELSE Whole(50)

\* 2. Condition factor: the weight of the first CONDITION_WEIGHTS key that is a
\* substring of the lower-cased, stripped condition text, times 100.
ConditionText(item) == Strip(Lower(Get(item, "condition", "")))

ConditionFactor(condition) ==
    LET hits == {i \in 1..Len(CONDITION_WEIGHTS) :
                     Contains(condition, CONDITION_WEIGHTS[i][1])}
    IN  IF hits = {} THEN DefaultConditionWeight
        ELSE CONDITION_WEIGHTS[CHOOSE i \in hits : \A j \in hits : i <= j][2]

\* 3. Seller factor.
SellerText(item) == Lower(Get(item, "seller_type", ""))

SellerFactor(seller_type) ==
    IF Contains(seller_type, "private") \/ Contains(seller_type, "privat") THEN 70
    ELSE IF Contains(seller_type, "business") \/ Contains(seller_type, "bedrift") THEN 60
    ELSE 65

\* 4. Listing age factor.
PostedText(item) == Lower(Get(item, "posted", ""))

\* any(str(i) in posted for i in range(lo, hi))
AnyDigit(posted, lo, hi) == \E i \in lo..(hi - 1) : Contains(posted, ToStr(i))

ListingAgeFactor_range3(posted) ==
    IF Contains(posted, "i dag") \/ Contains(posted, "today")
       \/ Contains(posted, "time") \/ Contains(posted, "minut") THEN 90
    ELSE IF Contains(posted, "i gaar") \/ Contains(posted, "yesterday") THEN 85
    ELSE IF AnyDigit(posted, 1, 3) /\ Contains(posted, "dag") THEN 75
    ELSE IF AnyDigit(posted, 4, 8) /\ Contains(posted, "dag") THEN 65
    ELSE IF Contains(posted, "uke") \/ Contains(posted, "week") THEN 55
    ELSE IF Contains(posted, "maaned") \/ Contains(posted, "month") THEN 40
    ELSE 70

ListingAgeFactor(posted) ==
    IF Contains(posted, "i dag") \/ Contains(posted, "today")
       \/ Contains(posted, "time") \/ Contains(posted, "minut") THEN 90
    ELSE IF Contains(posted, "i gaar") \/ Contains(posted, "yesterday") THEN 85
    ELSE IF AnyDigit(posted, 1, 4) /\ Contains(posted, "dag") THEN 75
    ELSE IF AnyDigit(posted, 4, 8) /\ Contains(posted, "dag") THEN 65
    ELSE IF Contains(posted, "uke") \/ Contains(posted, "week") THEN 55
    ELSE IF Contains(posted, "maaned") \/ Contains(posted, "month") THEN 40
    ELSE 70

\* factors['details'] of a listing with a price. The value kept for
\* 'price_vs_avg' is the percentage itself, before it is formatted.
Details(price, avg_price, condition, seller_type, posted) ==
    LET base == ("condition" :> OrElse(condition, "Not specified"))
                @@ ("seller_type" :> OrElse(seller_type, "Unknown"))
                @@ ("posted" :> OrElse(posted, "Unknown"))
    IN  IF RatLess(Whole(0), avg_price)
        THEN ("price_vs_avg" :> PriceDiffPct(price, avg_price))
             @@ ("avg_price" :> avg_price) @@ base
        ELSE base

FinalScore_halves(factors) ==
    RatAdd(RatMul(factors.price_factor, Rat(50, 100)),
           Rat(30 * factors.condition_factor + 10 * factors.seller_factor
               + 10 * factors.listing_age_factor, 100))

\* final_score = price*0.60 + condition*0.20 + seller*0.10 + age*0.10
FinalScore(factors) ==
    RatAdd(RatMul(factors.price_factor, Rat(60, 100)),
           Rat(20 * factors.condition_factor + 10 * factors.seller_factor
               + 10 * factors.listing_age_factor, 100))

EmptyFactors ==
    [price_factor |-> Whole(0), condition_factor |-> 0, seller_factor |-> 0,
     listing_age_factor |-> 0, details |-> EmptyDict]

\* DealAnalyzer._calculate_deal_score: <<deal_score, factors>>
_calculate_deal_score(item, stats) ==
    LET price == Get(item, "price", 0)
        avg_price == Get(stats, "avg", Whole(0))
        condition == ConditionText(item)
        seller_type == SellerText(item)
        posted == PostedText(item)
        factors ==
            [price_factor |-> PriceFactor(price, avg_price),
             condition_factor |-> ConditionFactor(condition),
             seller_factor |-> SellerFactor(seller_type),
             listing_age_factor |-> ListingAgeFactor(posted),
             details |-> Details(price, avg_price, condition, seller_type, posted)]
    IN  IF ShortCircuit(price) THEN <<0, EmptyFactors>>
        ELSE <<IntOf(FinalScore(factors)), factors>>

RecommendationLevel_above(deal_score) ==
    IF deal_score > 90 THEN "excellent"
    ELSE IF deal_score > 80 THEN "great"
    ELSE IF deal_score > 70 THEN "good"
    ELSE IF deal_score > 50 THEN "fair"
    ELSE "overpriced"

\* The recommendation_level analyze derives from a deal_score.
RecommendationLevel(deal_score) ==
    IF deal_score >= 90 THEN "excellent"
    ELSE IF deal_score >= 80 THEN "great"
    ELSE IF deal_score >= 70 THEN "good"
    ELSE IF deal_score >= 50 THEN "fair"
    ELSE "overpriced"

-----------------------------------------------------------------------------
(* DealAnalyzer: the similarity grouper.                                   *)

\* BRAND_PATTERNS, in the dict's insertion order: a brand and the words of its
\* pattern \b(w1|w2|...)\b (ps[45] stands for ps4 and ps5).
BRAND_PATTERNS ==
    << <<"apple", {"iphone", "ipad", "macbook", "mac", "apple", "airpods", "watch"}>>,
       <<"samsung", {"samsung", "galaxy"}>>,
       <<"sony", {"sony", "playstation", "ps4", "ps5"}>>,
       <<"microsoft", {"xbox", "microsoft", "surface"}>>,
       <<"nintendo", {"nintendo", "switch"}>>,
       <<"dyson", {"dyson"}>>,
       <<"lg", {"lg", "oled"}>>,
       <<"dji", {"dji", "mavic", "mini", "phantom"}>>,
       <<"canon", {"canon", "eos"}>>,
       <<"nikon", {"nikon"}>>,
       <<"nvidia", {"nvidia", "geforce", "rtx", "gtx"}>>,
       <<"amd", {"amd", "ryzen", "radeon"}>> >>

stop_words ==
    {"til", "for", "med", "og", "i", "paa", "selges", "salg",
     "pent", "brukt", "ny", "som", "god", "fin", "veldig",
     "the", "a", "an", "for", "sale", "selling"}

\* The characters \w matches.
WordChars == LowerChars \o UpperChars \o Digits \o "_"
IsWordChar(c) == Contains(WordChars, c)

\* re.findall(r'\b[\w]+\b', s): the maximal runs of word characters of s, in
\* order. Scan(s, i, cur) reads s from position i with the run cur open.
RECURSIVE Scan(_, _, _)
Scan(s, i, cur) ==
    LET done == IF cur = "" THEN <<>> ELSE <<cur>>
    IN  IF i > Len(s) THEN done
        ELSE IF IsWordChar(Char(s, i)) THEN Scan(s, i + 1, cur \o Char(s, i))
        ELSE done \o Scan(s, i + 1, "")

Words(s) == Scan(s, 1, "")

\* re.search(r'\b(w1|w2|...)\b', title): a pattern word occurs between two word
\* boundaries exactly when it is one of the title's maximal runs.
PatternMatches(pattern_words, words) ==
    \E i \in 1..Len(words) : words[i] \in pattern_words

\* The first brand of BRAND_PATTERNS whose pattern matches, else 'unknown'.
Brand(words) ==
    LET hits == {i \in 1..Len(BRAND_PATTERNS) :
                     PatternMatches(BRAND_PATTERNS[i][2], words)}
    IN  IF hits = {} THEN "unknown"
        ELSE BRAND_PATTERNS[CHOOSE i \in hits : \A j \in hits : i <= j][1]

IsSignificant(word) == word \notin stop_words /\ Len(word) > 2

SignificantWords(words) == SelectSeq(words, IsSignificant)

\* Python: seq[:n]
Take(seq, n) == SubSeq(seq, 1, IF Len(seq) < n THEN Len(seq) ELSE n)

\* Python: sep.join(parts)
RECURSIVE Join(_, _)
Join(sep, parts) ==
    IF Len(parts) = 0 THEN ""
    ELSE IF Len(parts) = 1 THEN parts[1]
    ELSE parts[1] \o sep \o Join(sep, Tail(parts))

\* The key of a title: brand + first 2 significant words, joined by '_'.
KeyOfTitle(title) ==
    LET words == Words(title)
    IN  Join("_", <<Brand(words)>> \o Take(SignificantWords(words), 2))

\* The titles of the listings of this model: those of scenario D, and a second
\* spelling of its iPhone.
Titles ==
    {"Apple iPhone 13 64GB sort", "iPhone 13 64GB hvit selges",
     "Samsung Galaxy S23", "iPhone 13 64GB svart"}

\* The titles the grouper is studied on: those above, two titles that differ in
\* where an underscore stands, a one-word title and the empty title.
KeyTitles ==
    Titles \cup {"Stressless_stol skinn", "Stressless stol_skinn", "Sofa", ""}

\* The keys of the model's titles, computed once.
GroupKeys == [title \in KeyTitles |-> KeyOfTitle(Lower(title))]

\* key_parts of _get_group_key: the brand and the first 2 significant words
KeyPartsOf ==
    [title \in KeyTitles |->
        LET words == Words(Lower(title))
        IN  <<Brand(words)>> \o Take(SignificantWords(words), 2)]

KeyParts(item) == KeyPartsOf[Get(item, "title", "")]

_get_group_key_priced(item) ==
    GroupKeys[Get(item, "title", "")]
        \o (IF Get(item, "price", 0) > 0 THEN "" ELSE "_unpriced")

\* DealAnalyzer._get_group_key
_get_group_key(item) == GroupKeys[Get(item, "title", "")]

-----------------------------------------------------------------------------
(* DealAnalyzer.analyze: grouping, reference prices, scoring, statistics   *)
(* and comparison groups.                                                  *)

RECURSIVE Sum(_)
Sum(seq) == IF Len(seq) = 0 THEN 0 ELSE seq[1] + Sum(Tail(seq))

RECURSIVE RatSum(_)
RatSum(seq) == IF Len(seq) = 0 THEN Whole(0) ELSE RatAdd(seq[1], RatSum(Tail(seq)))

Range(seq) == {seq[i] : i \in 1..Len(seq)}

\* Python: min(xs), max(xs) of a non-empty list of ints
Min(seq) == CHOOSE x \in Range(seq) : \A y \in Range(seq) : x <= y
Max(seq) == CHOOSE x \in Range(seq) : \A y \in Range(seq) : x >= y

\* Python: sorted(pairs, key=lambda p: p[1]), a stable sort of <<value, key>>
\* pairs. InsertPair puts p behind the pairs whose key is not above its own.
RECURSIVE InsertPair(_, _)
InsertPair(p, pairs) ==
    IF Len(pairs) = 0 THEN <<p>>
    ELSE IF p[2] < pairs[1][2] THEN <<p>> \o pairs
    ELSE <<pairs[1]>> \o InsertPair(p, Tail(pairs))

RECURSIVE SortPairs(_)
SortPairs(pairs) ==
    IF Len(pairs) = 0 THEN <<>>
    ELSE InsertPair(pairs[Len(pairs)], SortPairs(SubSeq(pairs, 1, Len(pairs) - 1)))

\* Python: sorted(xs) of a list of ints
Sorted(seq) ==
    LET pairs == SortPairs([i \in 1..Len(seq) |-> <<seq[i], seq[i]>>])
    IN  [i \in 1..Len(seq) |-> pairs[i][1]]

\* statistics.mean of a non-empty list of ints
Mean(seq) == Rat(Sum(seq), Len(seq))

Median_upper(seq) ==
    LET data == Sorted(seq)
    IN  Whole(data[(Len(data) \div 2) + 1])

\* statistics.median of a non-empty list of ints
Median(seq) ==
    LET data == Sorted(seq)
        n == Len(data)
    IN  IF n % 2 = 1 THEN Whole(data[(n \div 2) + 1])
        ELSE Rat(data[n \div 2] + data[(n \div 2) + 1], 2)

ItemPrice(item) == Get(item, "price", 0)

\* [item.get('price', 0) for item in items if item.get('price', 0) > 0]
AllPrices(seq) == [i \in 1..Len(seq) |-> ItemPrice(seq[i])]
IsPriced(item) == ItemPrice(item) > 0
PricedPrices_unfiltered(seq) == AllPrices(seq)
PricedPrices(seq) == AllPrices(SelectSeq(seq, IsPriced))

\* DealAnalyzer._group_by_similarity: key -> the items of that key, in order
HasKey(item, key) == _get_group_key(item) = key

_group_by_similarity_first(seq) ==
    [key \in {_get_group_key(seq[i]) : i \in (1..Len(seq)) \cap {1}} |->
        SelectSeq(seq, LAMBDA item : HasKey(item, key))]

_group_by_similarity(seq) ==
    [key \in {_get_group_key(seq[i]) : i \in 1..Len(seq)} |->
        SelectSeq(seq, LAMBDA item : HasKey(item, key))]

\* The group_averages entry of a group with at least one price.
GroupStats(prices) ==
    [avg |-> Mean(prices), median |-> Median(prices), min |-> Min(prices),
     max |-> Max(prices), count |-> Len(prices)]

\* group_averages of analyze: only the groups with a priced member have an entry
GroupAverages(price_groups) ==
    [key \in {k \in DOMAIN price_groups : Len(PricedPrices(price_groups[k])) > 0} |->
        GroupStats(PricedPrices(price_groups[key]))]

\* item['recommendation'] of analyze; the texts without their leading emoji.
RecommendationText(deal_score) ==
    IF deal_score >= 90 THEN "EXCELLENT DEAL - Buy Now!"
    ELSE IF deal_score >= 80 THEN "Great Deal - Highly Recommended"
    ELSE IF deal_score >= 70 THEN "Good Deal - Worth Considering"
    ELSE IF deal_score >= 50 THEN "Fair Price - Compare Before Buying"
    ELSE "Above Average Price"

\* One pass of analyze's loop: the item's copy with the analysis fields set.
AnalyzedItem(item, group_averages) ==
    LET stats == Get(group_averages, _get_group_key(item), EmptyDict)
        result == _calculate_deal_score(item, stats)
    IN  [deal_score |-> result[1],
         deal_factors |-> result[2],
         avg_price |-> Get(stats, "avg", Whole(0)),
         price_comparison |->
            [group_avg |-> Get(stats, "avg", Whole(0)),
             group_median |-> Get(stats, "median", Whole(0)),
             group_min |-> Get(stats, "min", 0),
             group_max |-> Get(stats, "max", 0),
             similar_items_count |-> Get(stats, "count", 0)],
         recommendation |-> RecommendationText(result[1]),
         recommendation_level |-> RecommendationLevel(result[1])] @@ item

\* analyzed_items of analyze: the items in the order of the input
AnalyzedItems(seq) ==
    LET group_averages == GroupAverages(_group_by_similarity(seq))
    IN  [i \in 1..Len(seq) |-> AnalyzedItem(seq[i], group_averages)]

\* DealAnalyzer._calculate_overall_stats
ItemScore(item) == Get(item, "deal_score", 0)
AllScores(seq) == [i \in 1..Len(seq) |-> ItemScore(seq[i])]

\* The tier of the score distribution a score is counted in.
DistributionTier(score) ==
    IF score >= 90 THEN "excellent"
    ELSE IF score >= 80 THEN "great"
    ELSE IF score >= 70 THEN "good"
    ELSE IF score >= 50 THEN "fair"
    ELSE "poor"

CountTier(seq, tier) ==
    Cardinality({i \in 1..Len(seq) : DistributionTier(ItemScore(seq[i])) = tier})

Saving_any_score(item, threshold) ==
    LET avg_price == Get(item, "avg_price", Whole(0))
        price == ItemPrice(item)
    IN  IF RatLess(Whole(price), avg_price) /\ price > 0
        THEN RatSub(avg_price, Whole(price))
        ELSE Whole(0)

\* total_savings += avg_price - price, if score >= threshold and avg_price > price > 0
Saving(item, threshold) ==
    LET avg_price == Get(item, "avg_price", Whole(0))
        price == ItemPrice(item)
    IN  IF ItemScore(item) >= threshold /\ RatLess(Whole(price), avg_price) /\ price > 0
        THEN RatSub(avg_price, Whole(price))
        ELSE Whole(0)

_calculate_overall_stats(seq, threshold) ==
    LET prices == PricedPrices(seq)
        scores == AllScores(seq)
        some == Len(seq) > 0
        priced == some /\ Len(prices) > 0
    IN  [total_items |-> Len(seq),
         avg_price |-> IF priced THEN Mean(prices) ELSE Whole(0),
         median_price |-> IF priced THEN Median(prices) ELSE Whole(0),
         min_price |-> IF priced THEN Min(prices) ELSE 0,
         max_price |-> IF priced THEN Max(prices) ELSE 0,
         avg_deal_score |-> IF some THEN Mean(scores) ELSE Whole(0),
         best_deal_score |-> IF some THEN Max(scores) ELSE 0,
         deals_count |->
            Cardinality({i \in 1..Len(seq) : ItemScore(seq[i]) >= threshold}),
         potential_savings |->
            RatSum([i \in 1..Len(seq) |-> Saving(seq[i], threshold)]),
         score_distribution |->
            [tier \in {"excellent", "great", "good", "fair", "poor"} |->
                CountTier(seq, tier)]]

\* DealAnalyzer._find_comparison_groups
ToUpper == [c \in {Char(LowerChars, i) : i \in 1..Len(LowerChars)} |->
               Char(UpperChars, CHOOSE i \in 1..Len(LowerChars) : Char(LowerChars, i) = c)]

UpperChar(c) == IF c \in DOMAIN ToUpper THEN ToUpper[c] ELSE c

IsLetter(c) == Contains(LowerChars, c) \/ Contains(UpperChars, c)

\* Python: s.title(): a letter is upper-cased behind a non-letter (or at the
\* start) and lower-cased behind a letter.
TitleCase(s) ==
    LET ch(i) == IF i = 1 \/ ~IsLetter(Char(s, i - 1))
                 THEN UpperChar(Char(s, i)) ELSE LowerChar(Char(s, i))
        F[i \in 0..Len(s)] == IF i = 0 THEN "" ELSE F[i - 1] \o ch(i)
    IN  F[Len(s)]

IsLong(word) == Len(word) > 3

\* The long words (len(word) > 3) of the model's titles, computed once.
LongWordsOf == [title \in Titles |-> SelectSeq(Words(Lower(title)), IsLong)]

LongWords(item) == LongWordsOf[Get(item, "title", "")]

\* The key of an item with at least 2 long words: its first 3, joined by ' '
ComparisonKeyOf == [title \in Titles |-> Join(" ", Take(LongWordsOf[title], 3))]

ComparisonKey(item) == ComparisonKeyOf[Get(item, "title", "")]

\* display_key = key.title(), computed once for the keys of the model's titles
DisplayKeyOf == [key \in {ComparisonKeyOf[title] : title \in Titles} |-> TitleCase(key)]

HasComparisonKey(item, key) == Len(LongWords(item)) >= 2 /\ ComparisonKey(item) = key

\* sorted(group_items, key=lambda x: x.get('price', float('inf')))
SortedByPrice(seq) ==
    LET pairs == SortPairs([i \in 1..Len(seq) |-> <<seq[i], ItemPrice(seq[i])>>])
    IN  [i \in 1..Len(seq) |-> pairs[i][1]]

DisplayLimit == 5

_find_comparison_groups(seq) ==
    LET groups ==
            [key \in {ComparisonKey(seq[i]) :
                          i \in {j \in 1..Len(seq) : Len(LongWords(seq[j])) >= 2}} |->
                SelectSeq(seq, LAMBDA item : HasComparisonKey(item, key))]
        kept == {key \in DOMAIN groups : Len(groups[key]) >= 2}
    IN  [display_key \in {DisplayKeyOf[key] : key \in kept} |->
            LET key == CHOOSE k \in kept : DisplayKeyOf[k] = display_key
            IN  Take(SortedByPrice(groups[key]), DisplayLimit)]

analyze_hot_only(seq, threshold) ==
    LET hot == SelectSeq(AnalyzedItems(seq), LAMBDA item : ItemScore(item) >= threshold)
    IN  [items |-> hot,
         stats |-> _calculate_overall_stats(hot, threshold),
         comparisons |-> _find_comparison_groups(hot)]

\* DealAnalyzer.analyze
analyze(seq, threshold) ==
    IF Len(seq) = 0
    THEN [items |-> <<>>, stats |-> EmptyDict, comparisons |-> EmptyDict]
    ELSE LET analyzed_items == AnalyzedItems(seq)
         IN  [items |-> analyzed_items,
              stats |-> _calculate_overall_stats(analyzed_items, threshold),
              comparisons |-> _find_comparison_groups(analyzed_items)]

-----------------------------------------------------------------------------
(* Spec: a search collects a batch of listings, which analyze then scores. *)

MaxItems == 3
DefaultThreshold == 70

Prices == {0, 650, 1000}
\* The slider's lowest position ("all deals"), its default and a high one.
Thresholds == {0, DefaultThreshold, 90}

\* The listings a search can return: every title at every price (0 is "no
\* price stated"), new, sold privately and posted three days ago.
Listings ==
    [title : Titles, price : Prices, condition : {"Ny"},
     seller_type : {"Private"}, posted : {"3 dager siden"}]

Init ==
    /\ items = <<>>
    /\ deal_threshold = DefaultThreshold
    /\ analysis = None
    /\ listing = None
    /\ group_stats = None
    /\ scored = None
    /\ similarity_groups = None
    /\ OthersIdle

\* The scraper adds a listing to the batch.
Scrape ==
    /\ analysis = None
    /\ Len(items) < MaxItems
    /\ \E l \in Listings : items' = Append(items, l)
    /\ UNCHANGED <<deal_threshold, analysis, listing, group_stats, scored,
                   similarity_groups>>
    /\ UNCHANGED otherVars

\* analyze is called with the batch and a deal threshold.
Analyze ==
    /\ analysis = None
    /\ \E t \in Thresholds :
          /\ deal_threshold' = t
          /\ analysis' = analyze(items, t)
    /\ UNCHANGED <<items, listing, group_stats, scored, similarity_groups>>
    /\ UNCHANGED otherVars

Next == Scrape \/ Analyze

Spec == Init /\ [][Next]_vars

-----------------------------------------------------------------------------
(* SpecScore: _calculate_deal_score applied to one listing and one         *)
(* group-stats record.                                                     *)

\* The posted texts, by what they mean: FINN.no's relative dates ("3 dager
\* siden", as DemoScraper writes them) and the English words the scorer names.
MaxDays == 10
MaxCount == 2

AgeForms ==
    {<<"today", 0>>, <<"yesterday", 0>>, <<"none", 0>>, <<"other", 0>>}
    \cup ({"hours", "minutes", "weeks", "months"} \X (1..MaxCount))
    \cup ({"days"} \X (1..MaxDays))

Plural(n, one, many) == ToStr(n) \o " " \o (IF n = 1 THEN one ELSE many)

PostedNo(age) ==
    LET n == age[2]
    IN  CASE age[1] = "today" -> "i dag"
          [] age[1] = "yesterday" -> "I gaar"
          [] age[1] = "hours" -> Plural(n, "time", "timer") \o " siden"
          [] age[1] = "minutes" -> Plural(n, "minutt", "minutter") \o " siden"
          [] age[1] = "days" -> Plural(n, "dag", "dager") \o " siden"
          [] age[1] = "weeks" -> Plural(n, "uke", "uker") \o " siden"
          [] age[1] = "months" -> Plural(n, "maaned", "maaneder") \o " siden"
          [] age[1] = "none" -> ""
          [] OTHER -> "Ukjent"

PostedEn(age) ==
    LET n == age[2]
    IN  CASE age[1] = "today" -> "Today"
          [] age[1] = "yesterday" -> "Yesterday"
          [] age[1] = "minutes" -> Plural(n, "minute", "minutes") \o " ago"
          [] age[1] = "weeks" -> Plural(n, "week", "weeks") \o " ago"
          [] age[1] = "months" -> Plural(n, "month", "months") \o " ago"
          [] OTHER -> PostedNo(age)

PostedTexts == {PostedNo(a) : a \in AgeForms} \cup {PostedEn(a) : a \in AgeForms}

ConditionTexts ==
    {"", "ny", "New", "som ny", "like new", "Pent brukt", "lightly used",
     "Brukt", "used", "til reparasjon", "for repair", "Defekt", " Som Ny "}

SellerTexts ==
    {"", "private", "Private", "privat", "Business", "Bedrift", "Forhandler"}

ScorePrices == {-1, 0, 100, 700, 1000, 1300, 3000}

\* group_stats records: none, one without a reference price (avg 0), the one of
\* scenario A, and one whose average is not whole (the prices 700, 800, 1000).
StatsZero ==
    [avg |-> Whole(0), median |-> Whole(0), min |-> 0, max |-> 0, count |-> 0]
StatsA ==
    [avg |-> Whole(1000), median |-> Whole(1000), min |-> 800, max |-> 1200,
     count |-> 5]
StatsFrac ==
    [avg |-> Rat(2500, 3), median |-> Whole(800), min |-> 700, max |-> 1000,
     count |-> 3]
ScoreStats == {EmptyDict, StatsZero, StatsA, StatsFrac}

ScoreListings ==
    [title : {"iPhone 13 64GB svart"}, price : ScorePrices, condition : ConditionTexts,
     seller_type : SellerTexts, posted : PostedTexts]

InitScore ==
    /\ listing \in ScoreListings
    /\ group_stats \in ScoreStats
    /\ scored = None
    /\ items = <<>>
    /\ deal_threshold = DefaultThreshold
    /\ analysis = None
    /\ similarity_groups = None
    /\ OthersIdle

Score ==
    /\ scored = None
    /\ scored' = _calculate_deal_score(listing, group_stats)
    /\ UNCHANGED <<listing, group_stats, items, deal_threshold, analysis,
                   similarity_groups>>
    /\ UNCHANGED otherVars

NextScore == Score

SpecScore == InitScore /\ [][NextScore]_vars

-----------------------------------------------------------------------------
(* SpecKey: a batch of listings is grouped by _group_by_similarity.        *)

MaxKeyItems == 2

\* Listings that differ in more than the title: with and without a price, from
\* a private and from a business seller.
KeyListings ==
    [title : KeyTitles, price : {0, 650}, condition : {"Ny"},
     seller_type : {"Private", "Business"}, posted : {"3 dager siden"}]

ScrapeKey ==
    /\ similarity_groups = None
    /\ Len(items) < MaxKeyItems
    /\ \E l \in KeyListings : items' = Append(items, l)
    /\ UNCHANGED <<deal_threshold, analysis, listing, group_stats, scored,
                   similarity_groups>>
    /\ UNCHANGED otherVars

\* analyze groups a batch that is not empty.
Group ==
    /\ similarity_groups = None
    /\ Len(items) > 0
    /\ similarity_groups' = _group_by_similarity(items)
    /\ UNCHANGED <<items, deal_threshold, analysis, listing, group_stats, scored>>
    /\ UNCHANGED otherVars

NextKey == ScrapeKey \/ Group

SpecKey == Init /\ [][NextKey]_vars

-----------------------------------------------------------------------------
(* Properties of the scorer, checked under SpecScore.                      *)

Price == Get(listing, "price", 0)
Factors == scored[2]
HasAvg == RatLess(Whole(0), Get(group_stats, "avg", Whole(0)))

\* C1: the deal_score returned for a listing with a non-negative price is an
\* integer between 0 and 100, whatever the other fields and the group stats.
C1_ScoreInRange ==
    (scored # None /\ Price >= 0) => scored[1] \in 0..100

C1_Witness ==
    /\ scored # None
    /\ Price = 100 /\ group_stats = StatsA
    /\ scored[1] > 90

\* C4: scenario A (price 700, "som ny", "private", "i dag" against the stats
\* avg 1000, median 1000, min 800, max 1200, count 5) gives the factors
\* 100, 95, 70 and 90, the score 95 and the level 'excellent'.
ScenarioA ==
    /\ scored # None
    /\ group_stats = StatsA
    /\ listing.price = 700 /\ listing.condition = "som ny"
    /\ listing.seller_type = "private" /\ listing.posted = "i dag"

C4_ScenarioA ==
    ScenarioA =>
        /\ Factors.price_factor = Whole(100)
        /\ Factors.condition_factor = 95
        /\ Factors.seller_factor = 70
        /\ Factors.listing_age_factor = 90
        /\ scored[1] = 95
        /\ RecommendationLevel(scored[1]) = "excellent"

\* C7: with a price and a group average above zero, the price factor is
\* 50 + 1.67 * pct clamped into [0, 100], where pct = (avg - price) / avg * 100;
\* so the average price gives exactly 50, a price 30% below it gives at least 98
\* and a price 30% above it gives at most 2.
C7_PriceFactor ==
    (scored # None /\ Price > 0 /\ HasAvg) =>
        LET avg == group_stats["avg"]
            pf == Factors.price_factor
            \* 50 + 1.67 * pct = raw / (100 * avg[1])
            raw == 5000 * avg[1] + 167 * 100 * (avg[1] - Price * avg[2])
            den == 100 * avg[1]
        IN  /\ raw < 0 => pf = Whole(0)
            /\ raw > 100 * den => pf = Whole(100)
            /\ (0 <= raw /\ raw <= 100 * den) => pf[1] * den = raw * pf[2]
            /\ Whole(Price) = avg => pf = Whole(50)
            /\ 10 * Price * avg[2] = 7 * avg[1] => RatLeq(Whole(98), pf)
            /\ 10 * Price * avg[2] = 13 * avg[1] => RatLeq(pf, Whole(2))

C7_Witness ==
    /\ scored # None
    /\ Price = 1300 /\ group_stats = StatsA
    /\ Factors.price_factor = Whole(0)

\* The condition phrases and the factor the claim gives each.
ConditionPhrases ==
    {<<"ny", 100>>, <<"new", 100>>, <<"som ny", 95>>, <<"like new", 95>>,
     <<"pent brukt", 85>>, <<"lightly used", 85>>, <<"brukt", 70>>,
     <<"used", 70>>, <<"til reparasjon", 40>>, <<"for repair", 40>>}

\* C8: the condition factor is 100 for a 'ny'/'new' condition, 95 for 'som ny'/
\* 'like new', 85 for 'pent brukt'/'lightly used', 70 for 'brukt'/'used', 40 for
\* 'til reparasjon'/'for repair' (case-insensitively), and 70 for a condition
\* text that contains none of these phrases.
C8_ConditionFactor ==
    (scored # None /\ Price > 0) =>
        LET text == Strip(Lower(listing.condition))
        IN  /\ \A p \in ConditionPhrases :
                   text = p[1] => Factors.condition_factor = p[2]
            /\ (\A p \in ConditionPhrases : ~Contains(text, p[1]))
                   => Factors.condition_factor = 70

AgeBucketFactor(age) ==
    CASE age[1] \in {"today", "hours", "minutes"} -> {90}
      [] age[1] = "yesterday" -> {85}
      [] age[1] = "days" /\ age[2] \in 1..3 -> {75}
      [] age[1] = "days" /\ age[2] \in 4..7 -> {65}
      [] age[1] = "weeks" -> {55}
      [] age[1] = "months" -> {40}
      [] age[1] \in {"none", "other"} -> {70}
      [] OTHER -> {40, 55, 65, 70, 75, 85, 90}

C11_FloorOfWeightedSum ==
    (scored # None /\ Price > 0) =>
        LET pf == Factors.price_factor
            rest == 20 * Factors.condition_factor + 10 * Factors.seller_factor
                    + 10 * Factors.listing_age_factor
        IN  scored[1] = (60 * pf[1] + rest * pf[2]) \div (100 * pf[2])

C11_Witness ==
    /\ scored # None
    /\ Price = 1000 /\ group_stats = StatsA
    /\ Factors.condition_factor = 100 /\ Factors.seller_factor = 70
    /\ Factors.listing_age_factor = 75
    /\ scored[1] = 64

-----------------------------------------------------------------------------
(* Properties of analyze, checked under Spec.                              *)

Analyzed == analysis # None
Results == analysis.items

\* The members of the batch that share item i's group key and state a price.
PricedPeers(i) ==
    {j \in 1..Len(items) :
        /\ _get_group_key(items[j]) = _get_group_key(items[i])
        /\ items[j].price > 0}

\* C2: a listing with price <= 0 gets deal_score 0, an empty details map and
\* the level 'overpriced', whatever its group's reference stats are.
C2_NoPriceNoScore ==
    Analyzed =>
        \A i \in 1..Len(Results) :
            items[i].price <= 0 =>
                /\ Results[i].deal_score = 0
                /\ Results[i].deal_factors.details = EmptyDict
                /\ Results[i].deal_factors.price_factor = Whole(0)
                /\ Results[i].recommendation_level = "overpriced"

C2_Witness ==
    /\ Analyzed
    /\ \E i \in 1..Len(Results) :
          /\ items[i].price = 0
          /\ PricedPeers(i) # {}
          /\ Results[i].deal_score = 0

\* C3: scenario D. In a batch holding the three titles, "Apple iPhone 13 64GB
\* sort" and "iPhone 13 64GB hvit selges" get the same group key and "Samsung
\* Galaxy S23" gets another one.
C3_ScenarioD ==
    Analyzed =>
        \A i, j, k \in 1..Len(items) :
            (/\ items[i].title = "Apple iPhone 13 64GB sort"
             /\ items[j].title = "iPhone 13 64GB hvit selges"
             /\ items[k].title = "Samsung Galaxy S23")
            => /\ _get_group_key(items[i]) = _get_group_key(items[j])
               /\ _get_group_key(items[k]) # _get_group_key(items[i])
               /\ _get_group_key(items[k]) # _get_group_key(items[j])

\* C5: the analyzed items come back in descending order of deal_score, items of
\* equal score in the order of the input.
C5_SortedByScore ==
    Analyzed =>
        /\ Len(Results) = Len(items)
        /\ \A i, j \in 1..Len(Results) :
              i < j => Results[i].deal_score >= Results[j].deal_score

\* C6: a listing with a price whose group has fewer than 2 priced members gets
\* the neutral price factor 50, and its similar_items_count is below 2.
C6_NeutralWithoutPeers ==
    Analyzed =>
        \A i \in 1..Len(Results) :
            (items[i].price > 0 /\ Cardinality(PricedPeers(i)) < 2) =>
                /\ Results[i].deal_factors.price_factor = Whole(50)
                /\ Results[i].price_comparison.similar_items_count < 2

C6_Witness ==
    /\ Analyzed
    /\ \E i, j \in 1..Len(Results) :
          /\ items[i].price > 0
          /\ PricedPeers(i) = {i}
          /\ _get_group_key(items[j]) = _get_group_key(items[i])
          /\ items[j].price = 0
          /\ Results[i].deal_factors.price_factor = Whole(50)

\* C12: the recommendation_level of an analyzed item follows from its
\* deal_score alone: 'excellent' iff score >= 90, 'great' iff 80 <= score < 90,
\* 'good' iff 70 <= score < 80, 'fair' iff 50 <= score < 70, 'overpriced' iff
\* score < 50.
C12_LevelByScore ==
    Analyzed =>
        \A i \in 1..Len(Results) :
            LET score == Results[i].deal_score
                level == Results[i].recommendation_level
            IN  /\ level \in {"excellent", "great", "good", "fair", "overpriced"}
                /\ level = "excellent" <=> score >= 90
                /\ level = "great" <=> (80 <= score /\ score < 90)
                /\ level = "good" <=> (70 <= score /\ score < 80)
                /\ level = "fair" <=> (50 <= score /\ score < 70)
                /\ level = "overpriced" <=> score < 50

C12_Witness ==
    /\ Analyzed
    /\ \E i, j \in 1..Len(Results) :
          /\ Results[i].deal_score = 90
          /\ Results[i].recommendation_level = "excellent"
          /\ Results[j].deal_score \in 50..69
          /\ Results[j].recommendation_level = "fair"

\* The statistics that may depend on the threshold, and the rest of a record.
ThresholdStats == {"deals_count", "potential_savings"}
OtherStats(stats) == [k \in DOMAIN stats \ ThresholdStats |-> stats[k]]

\* C13: the threshold does not influence scoring. Analyzing the same batch with
\* another threshold gives the same items (deal_score, deal_factors,
\* price_comparison, recommendation_level) and the same comparisons; of the
\* statistics only deals_count and potential_savings may differ. (Every
\* analysis is compared with the one under the default threshold, so any two
\* analyses of a batch agree.)
C13_ThresholdIndependent ==
    (Analyzed /\ deal_threshold # DefaultThreshold) =>
        LET other == analyze(items, DefaultThreshold)
        IN  /\ other.items = Results
            /\ other.comparisons = analysis.comparisons
            /\ OtherStats(other.stats) = OtherStats(analysis.stats)

C13_Witness ==
    /\ Analyzed
    /\ deal_threshold > DefaultThreshold
    /\ \E i \in 1..Len(Results) :
          /\ Results[i].deal_score >= DefaultThreshold
          /\ Results[i].deal_score < deal_threshold
    /\ analysis.stats.deals_count # analyze(items, DefaultThreshold).stats.deals_count

-----------------------------------------------------------------------------
(* Properties of the grouper, checked under SpecKey.                       *)

Grouped == similarity_groups # None

\* The positions of a batch, split by group key.
KeyPartition(seq) ==
    {{i \in 1..Len(seq) : HasKey(seq[i], key)} :
        key \in DOMAIN _group_by_similarity(seq)}

\* The batch scraped again with every price changed.
Repriced(seq) ==
    [i \in 1..Len(seq) |->
        [seq[i] EXCEPT !.price = IF @ > 0 THEN 0 ELSE 1000]]

\* C14: the group key is a function of the title only. Two listings with the
\* same title get the same key and lie in the same group whatever their price
\* and seller, and changing the prices of a batch leaves its partition into
\* groups unchanged.
C14_KeyByTitleOnly ==
    Grouped =>
        /\ \A i, j \in 1..Len(items) :
              items[i].title = items[j].title =>
                  /\ _get_group_key(items[i]) = _get_group_key(items[j])
                  /\ \E key \in DOMAIN similarity_groups :
                        \E m, n \in 1..Len(similarity_groups[key]) :
                            /\ similarity_groups[key][m] = items[i]
                            /\ similarity_groups[key][n] = items[j]
        /\ KeyPartition(Repriced(items)) = KeyPartition(items)

C14_Witness ==
    /\ Grouped
    /\ \E i, j \in 1..Len(items) :
          /\ items[i].title = items[j].title
          /\ items[i].price = 0 /\ items[j].price > 0
          /\ items[i].seller_type # items[j].seller_type
          /\ Len(similarity_groups[_get_group_key(items[i])]) = 2

\* The orders a batch can arrive in, the members of a group as a set, and the
\* m-th smallest element of a set of positions.
Reorderings(seq) ==
    {[i \in 1..Len(seq) |-> seq[f[i]]] :
        f \in {g \in [1..Len(seq) -> 1..Len(seq)] :
                  \A a, b \in 1..Len(seq) : g[a] = g[b] => a = b}}
Members(group) == {group[m] : m \in 1..Len(group)}
NthOf(positions, m) ==
    CHOOSE x \in positions : Cardinality({y \in positions : y < x}) = m - 1

\* C15: grouping is order-independent. Every reordering of the batch gives the
\* same keys and the same member set per key; every listing lies in exactly one
\* group, and the members of a group stand in their input order.
C15_OrderIndependent ==
    Grouped =>
        /\ \A reordered \in Reorderings(items) :
              LET other == _group_by_similarity(reordered)
              IN  /\ DOMAIN other = DOMAIN similarity_groups
                  /\ \A key \in DOMAIN other :
                        Members(other[key]) = Members(similarity_groups[key])
        /\ \A i \in 1..Len(items) :
              Cardinality({key \in DOMAIN similarity_groups :
                              items[i] \in Members(similarity_groups[key])}) = 1
        /\ \A key \in DOMAIN similarity_groups :
              LET positions == {i \in 1..Len(items) : _get_group_key(items[i]) = key}
                  group == similarity_groups[key]
              IN  /\ Len(group) = Cardinality(positions)
                  /\ \A m \in 1..Len(group) : group[m] = items[NthOf(positions, m)]

C15_Witness ==
    /\ Grouped
    /\ Len(items) = 2
    /\ items[1].title = "iPhone 13 64GB svart"
    /\ items[2].title = "iPhone 13 64GB hvit selges"
    /\ similarity_groups = ("apple_iphone_64gb" :> items)

\* C16: the separator '_' of the group key occurs in none of the key's parts,
\* and two listings whose parts (brand, first two significant words) differ
\* never get the same key.
C16_SeparatorNotInTokens ==
    Grouped =>
        /\ \A i \in 1..Len(items) :
              \A n \in 1..Len(KeyParts(items[i])) :
                  ~Contains(KeyParts(items[i])[n], "_")
        /\ \A i, j \in 1..Len(items) :
              KeyParts(items[i]) # KeyParts(items[j]) =>
                  _get_group_key(items[i]) # _get_group_key(items[j])

-----------------------------------------------------------------------------
(* Properties of analyze's reference prices, statistics and comparisons,   *)
(* checked under Spec.                                                     *)

\* The sum of the prices at a set of positions of the batch.
RECURSIVE PriceSum(_)
PriceSum(positions) ==
    IF positions = {} THEN 0
    ELSE LET i == CHOOSE x \in positions : TRUE
         IN  items[i].price + PriceSum(positions \ {i})

\* The k-th smallest price at a set of positions: fewer than k of the prices
\* are below it, and at least k are not above it.
KthPrice(positions, k) ==
    CHOOSE x \in {items[i].price : i \in positions} :
        /\ Cardinality({i \in positions : items[i].price < x}) < k
        /\ Cardinality({i \in positions : items[i].price <= x}) >= k

\* C17: the reference stats reported for an analyzed item are the mean, the
\* conventional median (the middle price of an odd number, the mean of the two
\* middle prices of an even number), the min, the max and the count of the
\* members of its group with price > 0; all five are 0 when there is none.
C17_ReferenceStats ==
    Analyzed =>
        \A i \in 1..Len(Results) :
            LET peers == PricedPeers(i)
                n == Cardinality(peers)
                reported == Results[i].price_comparison
            IN  /\ reported.similar_items_count = n
                /\ n = 0 =>
                      /\ reported.group_avg = Whole(0)
                      /\ reported.group_median = Whole(0)
                      /\ reported.group_min = 0 /\ reported.group_max = 0
                /\ n > 0 =>
                      /\ reported.group_avg[1] * n
                            = PriceSum(peers) * reported.group_avg[2]
                      /\ reported.group_median =
                            IF n % 2 = 1
                            THEN Whole(KthPrice(peers, (n + 1) \div 2))
                            ELSE Rat(KthPrice(peers, n \div 2)
                                     + KthPrice(peers, (n \div 2) + 1), 2)
                      /\ reported.group_min = KthPrice(peers, 1)
                      /\ reported.group_max = KthPrice(peers, n)

C17_Witness ==
    /\ Analyzed
    /\ \E i \in 1..Len(Results) :
          /\ Cardinality(PricedPeers(i)) = 2
          /\ \E j \in 1..Len(items) :
                /\ _get_group_key(items[j]) = _get_group_key(items[i])
                /\ items[j].price = 0
          /\ Results[i].price_comparison.group_min = 650
          /\ Results[i].price_comparison.group_max = 1000
          /\ Results[i].price_comparison.group_median = Whole(825)

\* The reference average reported for an analyzed item (0 without one), and
\* max(0, reference average - price).
ReferenceAvg(i) == Results[i].price_comparison.group_avg
PriceBelowAvg(i) == RatMax(Whole(0), RatSub(ReferenceAvg(i), Whole(items[i].price)))

GrouperGroups ==
    {key \in DOMAIN _group_by_similarity(items) :
        Len(_group_by_similarity(items)[key]) >= 2}

\* C19: the comparison mapping is derived with the Grouper's key: it has one
\* entry per Grouper group with at least 2 members and no others, and the
\* listings of one entry share a Grouper group.
C19_ComparisonsByGrouperKey ==
    Analyzed =>
        /\ Cardinality(DOMAIN analysis.comparisons) = Cardinality(GrouperGroups)
        /\ \A key \in GrouperGroups :
              \E display_key \in DOMAIN analysis.comparisons :
                  \A m \in 1..Len(analysis.comparisons[display_key]) :
                      _get_group_key(analysis.comparisons[display_key][m]) = key
        /\ \A display_key \in DOMAIN analysis.comparisons :
              \A m, n \in 1..Len(analysis.comparisons[display_key]) :
                  _get_group_key(analysis.comparisons[display_key][m])
                      = _get_group_key(analysis.comparisons[display_key][n])

\* The statistics of _calculate_overall_stats, all at zero.
ZeroStats ==
    [total_items |-> 0, avg_price |-> Whole(0), median_price |-> Whole(0),
     min_price |-> 0, max_price |-> 0, avg_deal_score |-> Whole(0),
     best_deal_score |-> 0, deals_count |-> 0, potential_savings |-> Whole(0),
     score_distribution |->
        [tier \in {"excellent", "great", "good", "fair", "poor"} |-> 0]]

\* C20: analyze on an empty batch returns an empty item list, an empty
\* comparison mapping and a statistics record in which every statistic is
\* present with value zero.
C20_EmptyBatch ==
    (Analyzed /\ Len(items) = 0) =>
        /\ Results = <<>>
        /\ analysis.comparisons = EmptyDict
        /\ DOMAIN analysis.stats = DOMAIN ZeroStats
        /\ analysis.stats = ZeroStats

-----------------------------------------------------------------------------
(* SpecParse: FinnScraper._parse_search_item applied to one search-result  *)
(* element.  The non-breaking space U+00A0 is written ~ throughout.        *)

NBSP == "~"
BASE_URL == "https://www.finn.no"

\* The characters that Python's \s and str.strip() take for whitespace.
WhitespaceChars == " \t~"

IsDigit(c) == Contains(Digits, c)
IsWhitespace(c) == Contains(WhitespaceChars, c)

\* Python: s.replace(old, new), for a one-character old
RECURSIVE Replace(_, _, _)
Replace(s, old, new) ==
    IF Len(s) = 0 THEN ""
    ELSE (IF Char(s, 1) = old THEN new ELSE Char(s, 1))
             \o Replace(SubSeq(s, 2, Len(s)), old, new)

\* Python: s.strip() and get_text(strip=True), every whitespace character
RECURSIVE StripWhitespace(_)
StripWhitespace(s) ==
    IF Len(s) = 0 THEN ""
    ELSE IF IsWhitespace(Char(s, 1)) THEN StripWhitespace(SubSeq(s, 2, Len(s)))
    ELSE IF IsWhitespace(Char(s, Len(s)))
         THEN StripWhitespace(SubSeq(s, 1, Len(s) - 1))
    ELSE s

\* Python: s.rstrip('/')
RECURSIVE RStripSlash(_)
RStripSlash(s) ==
    IF Len(s) > 0 /\ Char(s, Len(s)) = "/"
    THEN RStripSlash(SubSeq(s, 1, Len(s) - 1)) ELSE s

\* Python: s.split('/')[-1]
RECURSIVE LastPart(_)
LastPart(s) ==
    IF Len(s) = 0 \/ Char(s, Len(s)) = "/" THEN ""
    ELSE LastPart(SubSeq(s, 1, Len(s) - 1)) \o Char(s, Len(s))

\* Python: int(s) for a str of decimal digits
RECURSIVE ToInt(_)
ToInt(s) ==
    IF Len(s) = 0 THEN 0
    ELSE 10 * ToInt(SubSeq(s, 1, Len(s) - 1))
            + ((CHOOSE i \in 1..Len(Digits) : Char(Digits, i) = Char(s, Len(s))) - 1)

\* int(s) does not raise ValueError: s is a run of digits.
IsIntLiteral(s) == Len(s) > 0 /\ \A i \in 1..Len(s) : IsDigit(Char(s, i))

\* The start of the leftmost character of s that is a digit (digits_only) or a
\* digit or whitespace, from position i on; 0 when there is none.
RECURSIVE RunStart(_, _, _)
RunStart(s, digits_only, i) ==
    IF i > Len(s) THEN 0
    ELSE IF IsDigit(Char(s, i)) \/ (~digits_only /\ IsWhitespace(Char(s, i))) THEN i
    ELSE RunStart(s, digits_only, i + 1)

\* The end of the run of such characters that starts at position i.
RECURSIVE RunEnd(_, _, _)
RunEnd(s, digits_only, i) ==
    IF i < Len(s) /\ (IsDigit(Char(s, i + 1))
                        \/ (~digits_only /\ IsWhitespace(Char(s, i + 1))))
    THEN RunEnd(s, digits_only, i + 1) ELSE i

\* re.search(r'\d+', s).group() and re.search(r'[\d\s]+', s).group(); "" when
\* there is no match (a match is never empty).
FirstRun(s, digits_only) ==
    LET i == RunStart(s, digits_only, 1)
    IN  IF i = 0 THEN "" ELSE SubSeq(s, i, RunEnd(s, digits_only, i))

\* The price of a price text: the first run of digits and whitespace, its
\* spaces removed, as an int; 0 when int() raises ValueError or nothing matches.
PriceOfText(price_text) ==
    LET price_match == FirstRun(Replace(price_text, NBSP, " "), FALSE)
        digits == StripWhitespace(Replace(price_match, " ", ""))
    IN  IF IsIntLiteral(digits) THEN ToInt(digits) ELSE 0

\* urljoin(BASE_URL, href) for a href that is not empty: a path is appended to
\* the site, an absolute address replaces it.
UrlJoin(href) ==
    IF Len(href) >= 4 /\ SubSeq(href, 1, 4) = "http" THEN href ELSE BASE_URL \o href

\* re.search(r'finnkode=(\d+)', href).group(1); "" when there is no match.
FinnkodeOf(href) ==
    LET starts == {i \in 1..Len(href) :
                      /\ i + 9 <= Len(href)
                      /\ SubSeq(href, i, i + 8) = "finnkode="
                      /\ IsDigit(Char(href, i + 9))}
    IN  IF starts = {} THEN ""
        ELSE LET i == CHOOSE j \in starts : \A k \in starts : j <= k
             IN  SubSeq(href, i + 9, RunEnd(href, TRUE, i + 9))

\* The id taken from a href that is not empty.
IdOfHref(href) ==
    IF Contains(href, "finnkode=") THEN FinnkodeOf(href)
    ELSE IF Contains(href, "/ad.html") THEN ""
    ELSE LastPart(RStripSlash(href))

\* The text of an element of the container, "" when it has no such element.
TextOf(elem, name) ==
    IF name \in DOMAIN elem THEN StripWhitespace(elem[name]) ELSE ""

\* The item built from a container, before the decision to return it.
ParsedItem(elem) ==
    LET href == Get(elem, "href", "")
    IN  [id |-> IF href = "" THEN "" ELSE IdOfHref(href),
         title |-> TextOf(elem, "title"),
         price |-> PriceOfText(TextOf(elem, "price")),
         price_text |-> TextOf(elem, "price"),
         location |-> TextOf(elem, "location"),
         condition |-> "",
         posted |-> TextOf(elem, "posted"),
         image_url |-> Get(elem, "img", ""),
         url |-> IF href = "" THEN "" ELSE UrlJoin(href),
         seller_type |-> "",
         description |-> ""]

\* The minimum required data: a title, and a url or an id.
HasRequiredData_any(item) == item.title # "" \/ item.url # "" \/ item.id # ""

HasRequiredData(item) == item.title # "" /\ (item.url # "" \/ item.id # "")

_parse_search_item(elem) ==
    LET item == ParsedItem(elem)
    IN  IF HasRequiredData(item) THEN item ELSE None

\* The hrefs of a result's link, "" for an attribute that is empty.
Hrefs ==
    {"", "/bap/forsale/ad.html?finnkode=123", "/bap/item/456/",
     "/bap/forsale/ad.html?id=7", "https://www.finn.no/789?finnkode=x"}

TitleTexts == {"  ", "Sofa", " iPhone 13 64GB svart "}

PriceTexts ==
    {"", "Solgt", "12 500 kr", "12~500 kr", "kr 12 500", "Pris 500 kr",
     "Til salgs 500 kr", "Pris: fra 1 200 kr", "12.500 kr", "1 200,50 kr",
     "12\t500 kr", "007", " 650~kr "}

\* With or without the element of a kind.
Optional(key, values) == {EmptyDict} \cup {key :> v : v \in values}

\* The search-result elements: each with or without a link, a title element
\* and a price element, and with a time element.
Containers ==
    {h @@ t @@ p @@ [posted |-> "3 dager siden"] :
        h \in Optional("href", Hrefs), t \in Optional("title", TitleTexts),
        p \in Optional("price", PriceTexts)}

AnalyzerIdle ==
    /\ items = <<>>
    /\ deal_threshold = DefaultThreshold
    /\ analysis = None
    /\ listing = None
    /\ group_stats = None
    /\ scored = None
    /\ similarity_groups = None

InitParse ==
    /\ container \in Containers
    /\ parse_pc = "ready"
    /\ parsed = None
    /\ AnalyzerIdle
    /\ StoreIdle
    /\ SearchIdle
    /\ GuiIdle

\* _scrape_search_page hands the element to the parser.
Parse ==
    /\ parse_pc = "ready"
    /\ parsed' = _parse_search_item(container)
    /\ parse_pc' = "returned"
    /\ UNCHANGED <<container, analyzerVars, storeVars, searchVars, guiVars>>

NextParse == Parse

SpecParse == InitParse /\ [][NextParse]_vars

-----------------------------------------------------------------------------
(* Properties of the parser, checked under SpecParse.                      *)

Returned == parse_pc = "returned"
HasPriceElement == "price" \in DOMAIN container

\* Python: s.replace(sub, '') for the currency word
RECURSIVE WithoutCurrency(_)
WithoutCurrency(s) ==
    IF Len(s) < 2 THEN s
    ELSE IF SubSeq(s, 1, 2) = "kr" THEN WithoutCurrency(SubSeq(s, 3, Len(s)))
    ELSE Char(s, 1) \o WithoutCurrency(SubSeq(s, 2, Len(s)))

\* A text without its whitespace, non-breaking spaces and currency word.
RECURSIVE Stripped(_)
Stripped(s) ==
    IF Len(s) = 0 THEN ""
    ELSE (IF IsWhitespace(Char(s, 1)) THEN "" ELSE Char(s, 1))
             \o Stripped(SubSeq(s, 2, Len(s)))

FirstDigitRun(text) == FirstRun(WithoutCurrency(Stripped(text)), TRUE)

\* C21: the parsed price of every price text is the integer given by the first
\* run of digits once whitespace, non-breaking spaces and the currency are
\* stripped from the text, and 0 for a text without digits.
C21_PriceIsFirstDigitRun ==
    (Returned /\ parsed # None /\ HasPriceElement) =>
        parsed.price =
            (IF FirstDigitRun(container.price) = "" THEN 0
             ELSE ToInt(FirstDigitRun(container.price)))

\* The record has no title, and neither a url nor an id.
LacksBoth(item) == item.title = "" /\ item.url = "" /\ item.id = ""

\* C22, as stated: a raw record is rejected exactly when it lacks both a title
\* and a url or id.
C22_RejectedIffLacksBoth ==
    Returned => ((parsed = None) <=> LacksBoth(ParsedItem(container)))

\* C22, amended: a raw record is rejected exactly when it lacks a title or
\* lacks both a url and an id; every other record is emitted as parsed.
C22_RejectedIffLacksEither ==
    Returned =>
        LET item == ParsedItem(container)
        IN  /\ (parsed = None) <=>
                  (item.title = "" \/ (item.url = "" /\ item.id = ""))
            /\ parsed # None => parsed = item

C22_Witness ==
    /\ Returned
    /\ parsed = None
    /\ "href" \in DOMAIN container /\ container.href # ""
    /\ "title" \in DOMAIN container

-----------------------------------------------------------------------------
(* SpecStore: the DataManager's tables price_history and saved_items.      *)
(* Timestamps are whole days; CURRENT_TIMESTAMP is the day `today`.        *)

MaxRows == 3
MaxBatch == 2
MaxClock == 2
DefaultCleanupDays == 90

\* The items handed to the store: one listing seen at two prices, and another.
StoreItems ==
    {[id |-> "123", title |-> "Sofa", price |-> 500, condition |-> "Ny"],
     [id |-> "123", title |-> "Sofa", price |-> 650, condition |-> "Ny"],
     [id |-> "456", title |-> "iPhone 13 64GB svart", price |-> 1000]}

StoreBatches ==
    UNION {[1..n -> StoreItems] : n \in 1..MaxBatch}

\* The row that INSERT INTO price_history writes for an item.
HistoryRow(item, rowid, timestamp) ==
    [id |-> rowid,
     finn_id |-> Get(item, "id", ""),
     title |-> Get(item, "title", ""),
     price |-> Get(item, "price", 0),
     timestamp |-> timestamp,
     url |-> Get(item, "url", ""),
     category |-> Get(item, "category", ""),
     location |-> Get(item, "location", ""),
     condition |-> Get(item, "condition", "")]

\* The table and the sequence after the inserts of a batch; inserted[i] is
\* false for an insert that raised sqlite3.Error and was skipped.
RECURSIVE InsertAll(_, _, _, _, _)
InsertAll(rows, seq, batch, inserted, timestamp) ==
    IF Len(batch) = 0 THEN <<rows, seq>>
    ELSE IF inserted[1]
         THEN InsertAll(rows \cup {HistoryRow(batch[1], seq + 1, timestamp)},
                        seq + 1, Tail(batch), Tail(inserted), timestamp)
         ELSE InsertAll(rows, seq, Tail(batch), Tail(inserted), timestamp)

\* DELETE FROM price_history WHERE timestamp < date('now', '-days days')
AfterCleanup(rows, days, now) == {r \in rows : ~(r.timestamp < now - days)}

InitStore ==
    /\ StoreIdle
    /\ AnalyzerIdle
    /\ ParserIdle
    /\ SearchIdle
    /\ GuiIdle

save_price_history ==
    \E batch \in StoreBatches, inserted \in [1..MaxBatch -> BOOLEAN] :
        /\ history_seq + Len(batch) <= MaxRows
        /\ LET after == InsertAll(price_history, history_seq, batch,
                                  SubSeq(inserted, 1, Len(batch)), today)
           IN  /\ price_history' = after[1]
               /\ history_seq' = after[2]
        /\ UNCHANGED <<saved_items, today, analyzerVars, parserVars, searchVars, guiVars>>

cleanup_old_data ==
    \E days \in {0, 1, DefaultCleanupDays} :
        /\ price_history' = AfterCleanup(price_history, days, today)
        /\ UNCHANGED <<history_seq, saved_items, today, analyzerVars, parserVars, searchVars, guiVars>>

\* INSERT OR REPLACE INTO saved_items, keyed by the UNIQUE finn_id.
save_item ==
    \E item \in StoreItems :
        /\ saved_items' = (item.id :> item.price) @@ saved_items
        /\ UNCHANGED <<price_history, history_seq, today, analyzerVars, parserVars, searchVars, guiVars>>

delete_saved_item ==
    \E finn_id \in {item.id : item \in StoreItems} :
        /\ saved_items' = [k \in DOMAIN saved_items \ {finn_id} |-> saved_items[k]]
        /\ UNCHANGED <<price_history, history_seq, today, analyzerVars, parserVars, searchVars, guiVars>>

\* A day passes.
NextDay ==
    /\ today < MaxClock
    /\ today' = today + 1
    /\ UNCHANGED <<price_history, history_seq, saved_items, analyzerVars, parserVars, searchVars, guiVars>>

NextStore ==
    \/ save_price_history
    \/ cleanup_old_data
    \/ save_item
    \/ delete_saved_item
    \/ NextDay

SpecStore == InitStore /\ [][NextStore]_vars

\* C23: stored price history is append-only: a row of price_history stays in
\* the table, unchanged, whatever DataManager operation comes next.
C23_AppendOnly == [][price_history \subseteq price_history']_vars

-----------------------------------------------------------------------------
(* SpecSearch: one call of FinnScraper.search, with the thread pool of     *)
(* _fetch_item_details, while another thread may call stop().  Listings    *)
(* are numbered in the order the search pages give them.  A request is     *)
(* started by the step that takes its thread to the state of waiting for   *)
(* the response; every request returns (the session's timeout).            *)

MaxResults == 2
PageSize == 2
MaxWorkers == 2

_should_stop_never(flag) == FALSE

\* _stop_flag.is_set()
_should_stop(flag) == flag

\* The condition of search's while loop.
LoopContinues(found, limit, flag) == Len(found) < limit /\ ~_should_stop(flag)

Trim_none(found, limit) == found

\* items[:max_results], for max_results >= 0
Trim(found, limit) == Take(found, limit)

\* The listings numbered from + 1 .. from + n.
NewListings(from, n) == [k \in 1..n |-> from + k]

\* A future just submitted: not started, no request made, not yet yielded by
\* as_completed.
Submitted == [pc |-> "pending", fetch |-> "none", yielded |-> FALSE]

Finished(future) == future.pc \in {"returned", "raised"}
Running(future) == future.pc \in {"fetching", "counting"}

AfterYield_returned(detailed, item, future) ==
    IF future.pc = "raised" THEN detailed ELSE Append(detailed, item)

\* The list after as_completed yielded the future of an item: its result (the
\* item), or the item itself when result() raised.
AfterYield(detailed, item, future) == Append(detailed, item)

InitSearch ==
    /\ stop_flag \in BOOLEAN
    /\ max_results \in 0..MaxResults
    /\ search_pc = "called"
    /\ page = 1
    /\ scraped = <<>>
    /\ pages_fetched = 0
    /\ futures = <<>>
    /\ detailed_items = <<>>
    /\ completed = 0
    /\ search_result = None
    /\ AnalyzerIdle /\ ParserIdle /\ StoreIdle /\ GuiIdle

notSearchVars == <<analyzerVars, parserVars, storeVars, guiVars>>

\* search: _reset_stop_flag and the locals before the loop.
ResetStopFlag ==
    /\ search_pc = "called"
    /\ stop_flag' = FALSE
    /\ scraped' = <<>>
    /\ page' = 1
    /\ search_pc' = "loop"
    /\ UNCHANGED <<max_results, pages_fetched, futures, detailed_items, completed,
                   search_result, notSearchVars>>

\* The loop condition; when it holds, the request for the page is started.
LoopHead ==
    /\ search_pc = "loop"
    /\ IF LoopContinues(scraped, max_results, stop_flag)
       THEN /\ search_pc' = "page_request"
            /\ pages_fetched' = pages_fetched + 1
       ELSE /\ search_pc' = "trim"
            /\ UNCHANGED pages_fetched
    /\ UNCHANGED <<stop_flag, max_results, page, scraped, futures, detailed_items,
                   completed, search_result, notSearchVars>>

\* _scrape_search_page returns: no items (an empty page, a request error, or
\* the stop signal found set before the first container) ends the loop,
\* otherwise the page's items are added.
PageResponse ==
    /\ search_pc = "page_request"
    /\ \E n \in IF _should_stop(stop_flag) THEN {0} ELSE 0..PageSize :
          IF n = 0
          THEN /\ search_pc' = "trim"
               /\ UNCHANGED <<scraped, page>>
          ELSE /\ scraped' = scraped \o NewListings(Len(scraped), n)
               /\ page' = page + 1
               /\ search_pc' = "loop"
    /\ UNCHANGED <<stop_flag, max_results, pages_fetched, futures, detailed_items,
                   completed, search_result, notSearchVars>>

\* After the loop: the list is trimmed, and either _fetch_item_details submits
\* one future per item or search returns the list as it is.
TrimAndSubmit ==
    /\ search_pc = "trim"
    /\ scraped' = Trim(scraped, max_results)
    /\ IF Len(scraped') > 0 /\ ~_should_stop(stop_flag)
       THEN /\ futures' = [i \in 1..Len(scraped') |-> Submitted]
            /\ search_pc' = "as_completed"
            /\ UNCHANGED search_result
       ELSE /\ search_result' = scraped'
            /\ search_pc' = "done"
            /\ UNCHANGED futures
    /\ UNCHANGED <<stop_flag, max_results, page, pages_fetched, detailed_items,
                   completed, notSearchVars>>

\* A free worker of the pool takes the oldest pending future and runs
\* fetch_single up to the request: the item is returned at once when the stop
\* signal is set.
RunTask(i) ==
    /\ futures[i].pc = "pending"
    /\ \A j \in 1..(i - 1) : futures[j].pc # "pending"
    /\ Cardinality({j \in DOMAIN futures : Running(futures[j])}) < MaxWorkers
    /\ futures' =
          [futures EXCEPT ![i] =
              IF _should_stop(stop_flag) THEN [@ EXCEPT !.pc = "returned"]
              ELSE [@ EXCEPT !.pc = "fetching", !.fetch = "started"]]
    /\ UNCHANGED <<stop_flag, max_results, search_pc, page, scraped, pages_fetched,
                   detailed_items, completed, search_result, notSearchVars>>

\* The detail request returns: the details are merged into the item, or the
\* failure is swallowed.
FetchReturns(i) ==
    /\ futures[i].pc = "fetching"
    /\ \E outcome \in {"merged", "failed"} :
          futures' = [futures EXCEPT ![i] = [@ EXCEPT !.pc = "counting", !.fetch = outcome]]
    /\ UNCHANGED <<stop_flag, max_results, search_pc, page, scraped, pages_fetched,
                   detailed_items, completed, search_result, notSearchVars>>

\* With the lock held: completed += 1 and the progress callback, which may
\* raise; then fetch_single returns the item.
Count(i) ==
    /\ futures[i].pc = "counting"
    /\ completed' = completed + 1
    /\ \E outcome \in {"returned", "raised"} :
          futures' = [futures EXCEPT ![i] = [@ EXCEPT !.pc = outcome]]
    /\ UNCHANGED <<stop_flag, max_results, search_pc, page, scraped, pages_fetched,
                   detailed_items, search_result, notSearchVars>>

\* as_completed yields a finished future: the loop breaks when the stop signal
\* is set, otherwise the item is appended; after the last future the loop ends.
Yield(i) ==
    /\ search_pc = "as_completed"
    /\ Finished(futures[i]) /\ ~futures[i].yielded
    /\ futures' = [futures EXCEPT ![i] = [@ EXCEPT !.yielded = TRUE]]
    /\ IF _should_stop(stop_flag)
       THEN /\ search_pc' = "shutdown"
            /\ UNCHANGED detailed_items
       ELSE /\ detailed_items' = AfterYield(detailed_items, scraped[i], futures[i])
            /\ search_pc' = IF \A j \in DOMAIN futures : futures'[j].yielded
                            THEN "shutdown" ELSE "as_completed"
    /\ UNCHANGED <<stop_flag, max_results, page, scraped, pages_fetched, completed,
                   search_result, notSearchVars>>

\* Leaving the `with` block waits for every future; search then returns the
\* detailed items.
Shutdown ==
    /\ search_pc = "shutdown"
    /\ \A i \in DOMAIN futures : Finished(futures[i])
    /\ search_result' = detailed_items
    /\ search_pc' = "done"
    /\ UNCHANGED <<stop_flag, max_results, page, scraped, pages_fetched, futures,
                   detailed_items, completed, notSearchVars>>

\* Another thread calls stop().
stop ==
    /\ ~stop_flag
    /\ stop_flag' = TRUE
    /\ UNCHANGED <<max_results, search_pc, page, scraped, pages_fetched, futures,
                   detailed_items, completed, search_result, notSearchVars>>

\* The steps of the thread that called search.
SearchStep ==
    \/ ResetStopFlag
    \/ LoopHead
    \/ PageResponse
    \/ TrimAndSubmit
    \/ \E i \in DOMAIN futures : Yield(i)
    \/ Shutdown

\* The steps of the pool's worker threads.
PoolStep ==
    \E i \in DOMAIN futures : RunTask(i) \/ FetchReturns(i) \/ Count(i)

NextSearch == SearchStep \/ PoolStep \/ stop

SpecSearch == InitSearch /\ [][NextSearch]_vars

\* The threads are scheduled and every request returns.
SpecSearchFair == SpecSearch /\ WF_vars(SearchStep) /\ WF_vars(PoolStep)

-----------------------------------------------------------------------------
(* Properties of search, checked under SpecSearch and SpecSearchFair.      *)

\* This step starts a search-page request or a detail request.
RequestStarts ==
    \/ pages_fetched' > pages_fetched
    \/ \E i \in DOMAIN futures :
          futures[i].fetch = "none" /\ futures'[i].fetch = "started"

SearchDone == search_pc = "done"

\* C24: no request is started while the stop signal is set; when the signal is
\* set at the end of pagination the detail phase is skipped, no future being
\* submitted; and once the signal is set during a search, search returns.
C24_CooperativeCancellation ==
    /\ [][RequestStarts => ~stop_flag]_vars
    /\ [][(search_pc = "trim" /\ stop_flag /\ search_pc' # search_pc)
             => (search_pc' = "done" /\ futures' = <<>>)]_vars
    /\ (stop_flag /\ search_pc # "called") ~> SearchDone

C24_Witness ==
    /\ SearchDone
    /\ stop_flag
    /\ pages_fetched >= 1
    /\ \E i, j \in DOMAIN futures :
          futures[i].fetch = "merged" /\ futures[j].fetch = "none"

\* C27: when search has returned without a stop request, the output of
\* _fetch_item_details holds every input listing exactly once.
C27_DetailsPermutation ==
    (SearchDone /\ ~stop_flag /\ Len(futures) > 0) =>
        /\ Len(detailed_items) = Len(scraped)
        /\ \A k \in 1..Len(scraped) :
              Cardinality({n \in 1..Len(detailed_items) :
                              detailed_items[n] = scraped[k]}) = 1

C27_Witness ==
    /\ SearchDone
    /\ ~stop_flag
    /\ detailed_items = <<2, 1>>
    /\ futures[1].pc = "raised"
    /\ futures[2].fetch = "failed"

\* C28: at most max_results search pages are fetched, the returned list has at
\* most max_results entries, every pagination iteration ends the loop or adds
\* at least one listing, and search returns.
C28_SearchTerminates ==
    /\ [](pages_fetched <= max_results)
    /\ [](SearchDone => Len(search_result) <= max_results)
    /\ [][(search_pc = "page_request" /\ search_pc' # search_pc)
             => (search_pc' = "trim" \/ Len(scraped') > Len(scraped))]_vars
    /\ <>SearchDone

C28_Witness ==
    /\ SearchDone
    /\ max_results = MaxResults
    /\ pages_fetched = max_results
    /\ page = 3
    /\ Len(search_result) = max_results

-----------------------------------------------------------------------------
(* SpecGui: the window's search handlers.  The GUI thread runs             *)
(* _start_search (button, F5), _stop_search (button, Escape) and the       *)
(* callbacks scheduled with after(0, ...); each search runs _run_search in *)
(* a thread of its own, on the one FinnScraper of the window.  A search is *)
(* cut down to its requests: search pages and detail pages alike.          *)

MaxSearches == 2
MaxFetches == 2

\* A thread as _start_search starts it.  stopped records that _stop_search
\* ran while the thread was alive; analyzed, that it called analyze.
StartedThread ==
    [pc |-> "started", fetched |-> 0, results |-> <<>>, stopped |-> FALSE,
     analyzed |-> FALSE]

\* The listings that a search with n requests fetched.
FetchedListings(n) ==
    [k \in 1..n |->
        [title |-> IF k = 1 THEN "iPhone 13 64GB svart" ELSE "iPhone 13 64GB hvit selges",
         price |-> IF k = 1 THEN 1000 ELSE 650, condition |-> "Ny",
         seller_type |-> "Private", posted |-> "3 dager siden"]]

\* The dict that search returns for a list of items.
SearchResults(found) ==
    [items |-> found, stats |-> [total_items |-> Len(found)],
     comparisons |-> EmptyDict, search_url |-> "", search_time |-> ""]

\* Python: for item in x, which gives a dict's keys
Iterated(x) == DOMAIN x

\* analyze(x, threshold) for the dict x that search returned: the dict is not
\* empty, so _group_by_similarity iterates it and _get_group_key calls
\* item.get on a key, a str, which raises AttributeError.
AnalyzeRaises(x) == Iterated(x) # {}

Alive(thread) == thread.pc # "exited"

InitGui ==
    /\ GuiIdle
    /\ stop_flag = FALSE
    /\ max_results = 0 /\ search_pc = "idle" /\ page = 1 /\ scraped = <<>>
    /\ pages_fetched = 0 /\ futures = <<>> /\ detailed_items = <<>>
    /\ completed = 0 /\ search_result = None
    /\ AnalyzerIdle /\ ParserIdle /\ StoreIdle

notGuiVars == <<analyzerVars, parserVars, storeVars, searchLocals>>

_start_search ==
    /\ ~is_scraping
    /\ Len(threads) < MaxSearches
    /\ is_scraping' = TRUE
    /\ threads' = Append(threads, StartedThread)
    /\ UNCHANGED <<stop_flag, event_queue, current_results, errors, notGuiVars>>

\* _stop_search, with the _search_complete it calls.
_stop_search ==
    /\ is_scraping' = FALSE
    /\ stop_flag' = TRUE
    /\ threads' = [w \in DOMAIN threads |->
                      IF Alive(threads[w]) THEN [threads[w] EXCEPT !.stopped = TRUE]
                      ELSE threads[w]]
    /\ UNCHANGED <<event_queue, current_results, errors, notGuiVars>>

\* The GUI thread runs the next scheduled callback: _display_results,
\* _show_error or _search_complete.
RunCallback ==
    /\ Len(event_queue) > 0
    /\ event_queue' = Tail(event_queue)
    /\ LET event == Head(event_queue)
       IN  /\ current_results' =
                 IF event.callback = "_display_results" THEN event.items
                 ELSE current_results
           /\ errors' =
                 IF event.callback = "_show_error" THEN errors \cup {event.thread}
                 ELSE errors
           /\ is_scraping' =
                 IF event.callback = "_search_complete" THEN FALSE ELSE is_scraping
    /\ UNCHANGED <<stop_flag, threads, notGuiVars>>

\* _run_search calls scraper.search, which starts with _reset_stop_flag.
EnterSearch(w) ==
    /\ threads[w].pc = "started"
    /\ stop_flag' = FALSE
    /\ threads' = [threads EXCEPT ![w].pc = "searching"]
    /\ UNCHANGED <<is_scraping, event_queue, current_results, errors, notGuiVars>>

\* search finds the stop signal clear and starts a request.
Fetch(w) ==
    /\ threads[w].pc = "searching"
    /\ ~_should_stop(stop_flag)
    /\ threads[w].fetched < MaxFetches
    /\ threads' = [threads EXCEPT ![w].fetched = @ + 1]
    /\ UNCHANGED <<stop_flag, is_scraping, event_queue, current_results, errors,
                   notGuiVars>>

\* search returns its results dict, or raises.
SearchReturns(w) ==
    /\ threads[w].pc = "searching"
    /\ \/ threads' = [threads EXCEPT ![w].pc = "returned",
                                     ![w].results =
                                         SearchResults(FetchedListings(threads[w].fetched))]
       \/ threads' = [threads EXCEPT ![w].pc = "except"]
    /\ UNCHANGED <<stop_flag, is_scraping, event_queue, current_results, errors,
                   notGuiVars>>

\* After search: return when is_scraping is false, else analyze(results) and
\* the scheduling of _display_results.
AfterSearch(w) ==
    /\ threads[w].pc = "returned"
    /\ IF ~is_scraping
       THEN /\ threads' = [threads EXCEPT ![w].pc = "finally"]
            /\ UNCHANGED event_queue
       ELSE IF AnalyzeRaises(threads[w].results)
       THEN /\ threads' = [threads EXCEPT ![w].pc = "except", ![w].analyzed = TRUE]
            /\ UNCHANGED event_queue
       ELSE /\ threads' = [threads EXCEPT ![w].pc = "finally", ![w].analyzed = TRUE]
            /\ event_queue' =
                  Append(event_queue,
                         [callback |-> "_display_results", thread |-> w,
                          items |-> analyze(threads[w].results, DefaultThreshold).items])
    /\ UNCHANGED <<stop_flag, is_scraping, current_results, errors, notGuiVars>>

\* except Exception: _show_error is scheduled.
Except(w) ==
    /\ threads[w].pc = "except"
    /\ threads' = [threads EXCEPT ![w].pc = "finally"]
    /\ event_queue' = Append(event_queue, [callback |-> "_show_error", thread |-> w])
    /\ UNCHANGED <<stop_flag, is_scraping, current_results, errors, notGuiVars>>

\* finally: _search_complete is scheduled and the thread ends.
Finally(w) ==
    /\ threads[w].pc = "finally"
    /\ threads' = [threads EXCEPT ![w].pc = "exited"]
    /\ event_queue' = Append(event_queue, [callback |-> "_search_complete", thread |-> w])
    /\ UNCHANGED <<stop_flag, is_scraping, current_results, errors, notGuiVars>>

\* The steps of the thread of _run_search.
_run_search(w) ==
    \/ EnterSearch(w)
    \/ Fetch(w)
    \/ SearchReturns(w)
    \/ AfterSearch(w)
    \/ Except(w)
    \/ Finally(w)

WorkerStep == \E w \in DOMAIN threads : _run_search(w)

NextGui == _start_search \/ _stop_search \/ RunCallback \/ WorkerStep

SpecGui == InitGui /\ [][NextGui]_vars

\* The threads are scheduled and the main loop runs its callbacks.
SpecGuiFair == SpecGui /\ WF_vars(WorkerStep) /\ WF_vars(RunCallback)

-----------------------------------------------------------------------------
(* Properties of the search handlers, checked under SpecGui and            *)
(* SpecGuiFair.                                                            *)

\* C25: a stop request is never lost: once _stop_search has run, the thread of
\* the search it stopped starts no further request.
C25_StopNeverLost ==
    [][\A w \in DOMAIN threads :
          (w \in DOMAIN threads' /\ threads'[w].fetched > threads[w].fetched)
              => ~threads[w].stopped]_vars

\* The callback is the _search_complete scheduled by a stopped thread, and it
\* clears is_scraping while a newer thread is alive.
ClearsNewerSearch ==
    /\ Len(event_queue) > 0
    /\ event_queue' = Tail(event_queue)
    /\ Head(event_queue).callback = "_search_complete"
    /\ threads[Head(event_queue).thread].stopped
    /\ is_scraping /\ ~is_scraping'
    /\ \E w \in DOMAIN threads :
          w > Head(event_queue).thread /\ Alive(threads[w])

\* _display_results is scheduled in the queue for thread w.
DisplayScheduled(queue, w) ==
    \E n \in 1..Len(queue) :
        queue[n].callback = "_display_results" /\ queue[n].thread = w

\* C26: a thread whose search was stopped does not call analyze and does not
\* schedule _display_results afterwards, also when a new search has been
\* started, and its _search_complete does not clear is_scraping while a newer
\* search is running.
C26_StoppedSearchDiscarded ==
    /\ [][\A w \in DOMAIN threads :
             threads[w].stopped =>
                 /\ threads'[w].analyzed => threads[w].analyzed
                 /\ DisplayScheduled(event_queue', w) => DisplayScheduled(event_queue, w)]_vars
    /\ [][~ClearsNewerSearch]_vars

\* _display_results has been scheduled, or has run, with the analysis of the
\* items that thread w fetched.
Displayed(w) ==
    /\ threads[w].results # <<>>
    /\ \/ \E n \in 1..Len(event_queue) :
             /\ event_queue[n].callback = "_display_results"
             /\ event_queue[n].thread = w
             /\ event_queue[n].items =
                   analyze(threads[w].results.items, DefaultThreshold).items
       \/ /\ Len(threads[w].results.items) > 0
          /\ current_results =
                analyze(threads[w].results.items, DefaultThreshold).items

ErrorScheduled(w) ==
    \/ w \in errors
    \/ \E n \in 1..Len(event_queue) :
          event_queue[n].callback = "_show_error" /\ event_queue[n].thread = w

SearchReturned(w) == w \in DOMAIN threads /\ threads[w].pc = "returned"

\* C30: when search has returned normally and the user does not stop the
\* search, _display_results is eventually scheduled with the analysis of the
\* fetched listings, and _show_error is not invoked.
C30_ResultsDisplayed ==
    \A w \in 1..MaxSearches :
        /\ []((w \in DOMAIN threads /\ threads[w].analyzed /\ ~threads[w].stopped)
                 => ~ErrorScheduled(w))
        /\ SearchReturned(w) ~>
              (w \in DOMAIN threads /\ (Displayed(w) \/ threads[w].stopped))

-----------------------------------------------------------------------------
(* The age factor over the posted texts of DemoScraper, checked under      *)
(* SpecScore.                                                              *)

\* DemoScraper.search: f"{random.randint(1, 30)} dager siden"
DemoMaxDays == 30
DagerSiden(n) == ToStr(n) \o " dager siden"

AgeFactorOfDays(n) == ListingAgeFactor(Lower(DagerSiden(n)))

\* C29: for the posted texts "N dager siden" with N from 1 to 30 the listing
\* age factor is non-increasing in N: a listing gets no higher factor than any
\* newer one and no lower factor than any older one.
C29_FreshnessMonotone ==
    (scored # None /\ Price > 0) =>
        \A n, m \in 1..DemoMaxDays :
            (listing.posted = DagerSiden(n) /\ n <= m) =>
                /\ AgeFactorOfDays(m) <= Factors.listing_age_factor
                /\ AgeFactorOfDays(n) = Factors.listing_age_factor

====
